---- MODULE Spec2Model ----
(***************************************************************************)
(* Model of installer/dev/mirror-cache.py: a caching proxy for pacman      *)
(* mirrors.  One handling flow per request (do_GET / do_HEAD), a cache     *)
(* directory shared by all flows, and an upstream mirror whose answers     *)
(* are chosen nondeterministically.                                        *)
(*                                                                         *)
(* Text is modelled as strings; a text FILE is a sequence of string chunks *)
(* (so that a write that fails half way leaves a prefix, and so that       *)
(* split("\n") is computed).  A request path is a sequence of chunks whose *)
(* boundaries are at the dots, so that str.endswith is computed.           *)
(***************************************************************************)
EXTENDS Integers, Sequences, FiniteSets, TLC

(***************************************************************************)
(* Bounds                                                                  *)
(***************************************************************************)
NumFlows == 2     \* handling flows (connections) that exist
MaxFaults == 1    \* disk / client-socket faults injected in one behaviour

Flows == 1..NumFlows

(***************************************************************************)
(* Values                                                                  *)
(***************************************************************************)
\* a file of CACHE_DIR: its content (bytes, or chunks of text), if it exists
File(data) == [exists |-> TRUE, data |-> data]
Absent == [exists |-> FALSE, data |-> <<>>]

Methods == {"GET", "HEAD"}

\* request paths: "/core.db", "/core.db.sig", "/core.sig"
Paths == { <<"/core", ".db">>, <<"/core", ".db", ".sig">>, <<"/core", ".sig">> }

\* bodies the upstream may serve (bytes)
Bodies == { <<7>>, <<7, 8>> }

\* upstream response header blocks: Content-Type absent, empty or set;
\* Content-Length absent, empty or set
UpstreamHeaders ==
    { [h \in {} |-> ""],
      [h \in {"Content-Type", "Content-Length"} |-> ""],
      [h \in {"Content-Type", "Content-Length"} |->
           IF h = "Content-Type" THEN "application/x-tar" ELSE "2"] }

RECURSIVE Join(_)
\* the string a sequence of chunks spells
Join(chunks) ==
    IF chunks = <<>> THEN "" ELSE Head(chunks) \o Join(Tail(chunks))

\* proper prefixes of a sequence: what a write that fails half way leaves
ProperPrefixes(s) == { SubSeq(s, 1, n) : n \in 0..(Len(s) - 1) }

(***************************************************************************)
(* Configuration                                                           *)
(***************************************************************************)
\* CachingProxyHandler.upstream after main(): the default, "/" stripped
upstream == "https://mirror.clarkson.edu/artix-linux/repos"

DefaultContentType == "application/octet-stream"

\* the suffixes of line 61, as chunk sequences
CacheableSuffixes ==
    { <<".pkg", ".tar", ".zst">>, <<".pkg", ".tar", ".xz">>, <<".db">>,
      <<".db", ".sig">>, <<".files">> }

\* a comparison of the final extension only
EndsWith_Extension(s, suffix) ==
    /\ Len(s) >= 1
    /\ s[Len(s)] = suffix[Len(suffix)]

\* str.endswith(suffix)
EndsWith(s, suffix) ==
    /\ Len(s) >= Len(suffix)
    /\ SubSeq(s, Len(s) - Len(suffix) + 1, Len(s)) = suffix

\* self.path.endswith((".pkg.tar.zst", ".pkg.tar.xz", ".db", ".db.sig", ".files"))
Cacheable(path) == \E suffix \in CacheableSuffixes : EndsWith(path, suffix)

\* hashlib.md5(self.path.encode()).hexdigest(), tabulated for Paths
cache_key(path) ==
    CASE Join(path) = "/core.db"     -> "f6f2601f00d7dd769dd27ae16f90dda8"
      [] Join(path) = "/core.db.sig" -> "c829919f5ce1c493db84dd9d571deb18"
      [] Join(path) = "/core.sig"    -> "2ae586dc6f3511da3290b4441d2e5cc0"

\* CACHE_DIR / cache_key
cache_file(path) == cache_key(path)

\* CACHE_DIR / f"{cache_key}.meta"
meta_file(path) == cache_key(path) \o ".meta"

\* every file name a flow can touch in CACHE_DIR
FileNames == { cache_file(p) : p \in Paths } \cup { meta_file(p) : p \in Paths }

\* f"{self.upstream}{self.path}"
upstream_url(path) == upstream \o Join(path)

\* the two lines written in the other order
MetaText_UrlFirst(ctype, url) ==
    SelectSeq(<<url, "\n", ctype>>, LAMBDA c : c # "")

\* the text of f"{content_type}\n{upstream_url}" as file chunks
MetaText(ctype, url) ==
    SelectSeq(<<ctype, "\n", url>>, LAMBDA c : c # "")

RECURSIVE Split(_)
\* str.split("\n"): the list of lines of a text, never an empty list
Split(text) ==
    IF \A i \in 1..Len(text) : text[i] # "\n"
    THEN <<Join(text)>>
    ELSE LET i == CHOOSE j \in 1..Len(text) :
                      /\ text[j] = "\n"
                      /\ \A k \in 1..(j - 1) : text[k] # "\n"
         IN  <<Join(SubSeq(text, 1, i - 1))>>
                 \o Split(SubSeq(text, i + 1, Len(text)))

\* the content type taken from the second line
MetaContentType_SecondLine(text) ==
    LET meta == Split(text)
    IN  IF Len(meta) >= 2 THEN meta[2] ELSE DefaultContentType

\* meta = meta_file.read_text().split("\n");
\* content_type = meta[0] if meta else "application/octet-stream"
MetaContentType(text) ==
    LET meta == Split(text)
    IN  IF meta # <<>> THEN meta[1] ELSE DefaultContentType

\* resp.headers.get(name, default)
\* the default taken for an empty value too
HeaderGet_OrDefault(headers, name, default) ==
    IF name \in DOMAIN headers /\ headers[name] # "" THEN headers[name] ELSE default

HeaderGet(headers, name, default) ==
    IF name \in DOMAIN headers THEN headers[name] ELSE default

(***************************************************************************)
(* What the client receives                                                *)
(***************************************************************************)
\* send_response(200) ... end_headers(): one status line and header block
HeaderBlock(status, reason, headers) ==
    [kind |-> "headers", status |-> status, reason |-> reason,
     headers |-> headers, data |-> <<>>]

\* self.wfile.write(bytes)
BodyBlock(data) ==
    [kind |-> "body", status |-> 0, reason |-> "", headers |-> [h \in {} |-> ""],
     data |-> data]

\* BaseHTTPRequestHandler.send_error(code, message): a status line with the
\* message as reason, the error headers, and an HTML page unless HEAD
send_error(method, code, message) ==
    <<HeaderBlock(code, message,
                  [h \in {"Content-Type", "Connection"} |->
                       IF h = "Content-Type" THEN "text/html;charset=utf-8"
                                             ELSE "close"])>>
      \o (IF method = "HEAD" THEN <<>>
          ELSE <<[kind |-> "errorpage", status |-> code, reason |-> message,
                  headers |-> [h \in {} |-> ""], data |-> <<>>]>>)

(***************************************************************************)
(* Exceptions                                                              *)
(***************************************************************************)
\* urllib.error.HTTPError: upstream answered with a non-success status
HTTPErrors ==
    { [cls |-> "HTTPError", code |-> 404, reason |-> "Not Found", cause |-> "status"],
      [cls |-> "HTTPError", code |-> 503, reason |-> "Service Unavailable",
       cause |-> "status"] }

\* urllib.error.URLError: urlopen wraps the OSError of connecting / resolving
URLErrors ==
    { [cls |-> "URLError", code |-> 0,
       reason |-> "[Errno -2] Name or service not known", cause |-> "network"] }

\* what urlopen raises unwrapped: the timeout of waiting for the status line
OpenOtherErrors ==
    { [cls |-> "TimeoutError", code |-> 0, reason |-> "timed out", cause |-> "network"] }

\* what resp.read() raises: http.client and socket errors, never URLError
ReadErrors ==
    { [cls |-> "TimeoutError", code |-> 0, reason |-> "The read operation timed out",
       cause |-> "network"] }

\* OSError of a disk operation
DiskError == [cls |-> "OSError", code |-> 0,
              reason |-> "[Errno 28] No space left on device", cause |-> "disk"]

\* OSError of writing to the client socket
ClientError == [cls |-> "BrokenPipeError", code |-> 0,
                reason |-> "[Errno 32] Broken pipe", cause |-> "client"]

NoException == [cls |-> "", code |-> 0, reason |-> "", cause |-> ""]

VARIABLES
    disk,          \* CACHE_DIR: file name -> File(content) or Absent
    pc,            \* flow -> where the handler is
    req,           \* flow -> [method, path] of the request being handled
    content,       \* flow -> local `content`
    content_type,  \* flow -> local `content_type`
    out,           \* flow -> blocks sent to the client so far
    exc,           \* flow -> the exception raised in the handler, if any
    escaped,       \* flow -> TRUE when the exception left the handler
    calls,         \* flow -> upstream requests issued by this handling
    fetched,       \* flow -> [headers, body] the upstream answered, if it did
    snap,          \* flow -> the disk when the handling started
    prev,          \* the handling that finished last
    faults         \* disk / client faults injected so far

vars == <<disk, pc, req, content, content_type, out, exc, escaped, calls,
          fetched, snap, prev, faults>>

NoReq == [method |-> "", path |-> <<>>]
NoFetch == [ok |-> FALSE, headers |-> [h \in {} |-> ""], body |-> <<>>]
NoPrev == [method |-> "", path |-> <<>>, out |-> <<>>, escaped |-> FALSE,
           calls |-> 0]

\* Path.exists()
Exists(d, name) == d[name].exists

\* both artifacts of the entry of a path are present
Complete(d, path) == Exists(d, cache_file(path)) /\ Exists(d, meta_file(path))

\* main(): CACHE_DIR.mkdir(...); serve_forever() with no request in progress
Init ==
    /\ disk = [n \in FileNames |-> Absent]
    /\ pc = [f \in Flows |-> "idle"]
    /\ req = [f \in Flows |-> NoReq]
    /\ content = [f \in Flows |-> <<>>]
    /\ content_type = [f \in Flows |-> ""]
    /\ out = [f \in Flows |-> <<>>]
    /\ exc = [f \in Flows |-> NoException]
    /\ escaped = [f \in Flows |-> FALSE]
    /\ calls = [f \in Flows |-> 0]
    /\ fetched = [f \in Flows |-> NoFetch]
    /\ snap = [f \in Flows |-> [n \in FileNames |-> Absent]]
    /\ prev = NoPrev
    /\ faults = 0
(***************************************************************************)
(* The handler, step by step.  f is the handling flow.                     *)
(***************************************************************************)
\* the except clauses of do_GET (lines 74-79) and do_HEAD (lines 108-111):
\* the blocks the handler sends for exception e, and whether e escapes
Handled(method, e) ==
    \/ e.cls \in {"HTTPError", "URLError"}
    \/ method = "GET"

\* the URLError clause placed first, catching its subclass HTTPError too
ErrorResponse_UrlErrorFirst(method, e) ==
    CASE e.cls \in {"HTTPError", "URLError"} ->
             send_error(method, 502, "Upstream error: " \o e.reason)
      [] OTHER -> IF method = "GET" THEN send_error(method, 500, e.reason)
                                    ELSE <<>>

ErrorResponse(method, e) ==
    CASE e.cls = "HTTPError" -> send_error(method, e.code, e.reason)
      [] e.cls = "URLError"  -> send_error(method, 502, "Upstream error: " \o e.reason)
      [] OTHER               -> IF method = "GET"
                                THEN send_error(method, 500, e.reason)
                                ELSE <<>>

\* an exception raised inside the try block of the miss branch
RaiseInTry(f, e) ==
    /\ exc' = [exc EXCEPT ![f] = e]
    /\ escaped' = [escaped EXCEPT ![f] = ~Handled(req[f].method, e)]
    /\ out' = [out EXCEPT ![f] = @ \o ErrorResponse(req[f].method, e)]
    /\ pc' = [pc EXCEPT ![f] = "done"]

\* an exception raised in the hit branch, which no try block encloses
RaiseOutsideTry(f, e) ==
    /\ exc' = [exc EXCEPT ![f] = e]
    /\ escaped' = [escaped EXCEPT ![f] = TRUE]
    /\ pc' = [pc EXCEPT ![f] = "done"]
    /\ UNCHANGED out

\* a request arrives: lines 31-33 / 83-85
Start(f, method, path) ==
    /\ pc[f] = "idle"
    /\ pc' = [pc EXCEPT ![f] = "check_cache"]
    /\ req' = [req EXCEPT ![f] = [method |-> method, path |-> path]]
    /\ snap' = [snap EXCEPT ![f] = disk]
    /\ UNCHANGED <<disk, content, content_type, out, exc, escaped, calls,
                   fetched, prev, faults>>

\* the body file alone deciding the hit
CheckCacheFile_Alone(f) ==
    /\ pc[f] = "check_cache"
    /\ pc' = [pc EXCEPT ![f] =
                 IF Exists(disk, cache_file(req[f].path)) THEN "hit_meta"
                                                          ELSE "check_meta"]
    /\ UNCHANGED <<disk, req, content, content_type, out, exc, escaped, calls,
                   fetched, snap, prev, faults>>

\* line 36 / 87, left operand: cache_file.exists()
CheckCacheFile(f) ==
    /\ pc[f] = "check_cache"
    /\ pc' = [pc EXCEPT ![f] =
                 IF Exists(disk, cache_file(req[f].path)) THEN "check_meta"
                                                          ELSE "fetch"]
    /\ UNCHANGED <<disk, req, content, content_type, out, exc, escaped, calls,
                   fetched, snap, prev, faults>>

\* the test of the metadata file negated
CheckMetaFile_Negated(f) ==
    /\ pc[f] = "check_meta"
    /\ pc' = [pc EXCEPT ![f] =
                 IF ~Exists(disk, meta_file(req[f].path)) THEN "hit_meta"
                                                          ELSE "fetch"]
    /\ UNCHANGED <<disk, req, content, content_type, out, exc, escaped, calls,
                   fetched, snap, prev, faults>>

\* line 36 / 87, right operand: meta_file.exists()
CheckMetaFile(f) ==
    /\ pc[f] = "check_meta"
    /\ pc' = [pc EXCEPT ![f] =
                 IF Exists(disk, meta_file(req[f].path)) THEN "hit_meta"
                                                         ELSE "fetch"]
    /\ UNCHANGED <<disk, req, content, content_type, out, exc, escaped, calls,
                   fetched, snap, prev, faults>>

\* an entry whose recorded content type is empty handled as a miss
HitReadMeta_RefetchEmpty(f) ==
    /\ pc[f] = "hit_meta"
    /\ \/ /\ content_type' = [content_type EXCEPT ![f] =
                                 MetaContentType(disk[meta_file(req[f].path)].data)]
          /\ pc' = [pc EXCEPT ![f] =
                       IF MetaContentType(disk[meta_file(req[f].path)].data) = ""
                       THEN "fetch" ELSE "hit_headers"]
          /\ UNCHANGED <<out, exc, escaped, faults>>
       \/ /\ faults < MaxFaults
          /\ faults' = faults + 1
          /\ RaiseOutsideTry(f, DiskError)
          /\ UNCHANGED content_type
    /\ UNCHANGED <<disk, req, content, calls, fetched, snap, prev>>

\* lines 37-38 / 88-89: read the metadata, take its first line
HitReadMeta(f) ==
    /\ pc[f] = "hit_meta"
    /\ \/ /\ content_type' = [content_type EXCEPT ![f] =
                                 MetaContentType(disk[meta_file(req[f].path)].data)]
          /\ pc' = [pc EXCEPT ![f] = "hit_headers"]
          /\ UNCHANGED <<out, exc, escaped, faults>>
       \/ /\ faults < MaxFaults
          /\ faults' = faults + 1
          /\ RaiseOutsideTry(f, DiskError)
          /\ UNCHANGED content_type
    /\ UNCHANGED <<disk, req, content, calls, fetched, snap, prev>>

\* lines 40-44 / 90-94: the header block of a hit
HitHeaders(f) ==
    /\ pc[f] = "hit_headers"
    /\ \/ /\ out' = [out EXCEPT ![f] = @ \o
                  <<HeaderBlock(200, "OK",
                      [h \in {"Content-Type", "Content-Length", "X-Cache"} |->
                         CASE h = "Content-Type" -> content_type[f]
                           [] h = "Content-Length" ->
                                ToString(Len(disk[cache_file(req[f].path)].data))
                           [] OTHER -> "HIT"])>>]
          /\ pc' = [pc EXCEPT ![f] =
                       IF req[f].method = "GET" THEN "hit_body" ELSE "done"]
          /\ UNCHANGED <<exc, escaped, faults>>
       \/ /\ faults < MaxFaults
          /\ faults' = faults + 1
          /\ RaiseOutsideTry(f, DiskError)
    /\ UNCHANGED <<disk, req, content, content_type, calls, fetched, snap, prev>>

\* lines 46-47: the body of a GET hit
HitBody(f) ==
    /\ pc[f] = "hit_body"
    /\ \/ /\ out' = [out EXCEPT ![f] =
                       @ \o <<BodyBlock(disk[cache_file(req[f].path)].data)>>]
          /\ pc' = [pc EXCEPT ![f] = "done"]
          /\ UNCHANGED <<exc, escaped, faults>>
       \/ /\ faults < MaxFaults
          /\ faults' = faults + 1
          /\ \E e \in {DiskError, ClientError} : RaiseOutsideTry(f, e)
    /\ UNCHANGED <<disk, req, content, content_type, calls, fetched, snap, prev>>
\* lines 53-56 of do_GET: urlopen(req, timeout=30)
FetchGET(f) ==
    /\ pc[f] = "fetch"
    /\ req[f].method = "GET"
    /\ calls' = [calls EXCEPT ![f] = @ + 1]
    /\ \/ \E h \in UpstreamHeaders, b \in Bodies :
             /\ fetched' = [fetched EXCEPT ![f] =
                               [ok |-> TRUE, headers |-> h, body |-> b]]
             /\ pc' = [pc EXCEPT ![f] = "read"]
             /\ UNCHANGED <<out, exc, escaped>>
       \/ \E e \in HTTPErrors \cup URLErrors \cup OpenOtherErrors :
             /\ RaiseInTry(f, e)
             /\ UNCHANGED fetched
    /\ UNCHANGED <<disk, req, content, content_type, snap, prev, faults>>

\* the response sent without the caching block of lines 61-65
ReadBody_NoCaching(f) ==
    /\ pc[f] = "read"
    /\ \/ /\ content' = [content EXCEPT ![f] = fetched[f].body]
          /\ content_type' = [content_type EXCEPT ![f] =
                HeaderGet(fetched[f].headers, "Content-Type", DefaultContentType)]
          /\ pc' = [pc EXCEPT ![f] = "respond"]
          /\ UNCHANGED <<out, exc, escaped>>
       \/ \E e \in ReadErrors :
             /\ RaiseInTry(f, e)
             /\ UNCHANGED <<content, content_type>>
    /\ UNCHANGED <<disk, req, calls, fetched, snap, prev, faults>>

\* lines 57-61: resp.read(), the content type, the cacheability decision
ReadBody(f) ==
    /\ pc[f] = "read"
    /\ \/ /\ content' = [content EXCEPT ![f] = fetched[f].body]
          /\ content_type' = [content_type EXCEPT ![f] =
                HeaderGet(fetched[f].headers, "Content-Type", DefaultContentType)]
          /\ pc' = [pc EXCEPT ![f] =
                       IF Cacheable(req[f].path) THEN "open_body" ELSE "respond"]
          /\ UNCHANGED <<out, exc, escaped>>
       \/ \E e \in ReadErrors :
             /\ RaiseInTry(f, e)
             /\ UNCHANGED <<content, content_type>>
    /\ UNCHANGED <<disk, req, calls, fetched, snap, prev, faults>>

\* Path.write_bytes / Path.write_text open the file for writing first: the
\* file is created, or truncated when it exists; when the open raises
\* OSError the file is as it was
OpenForWriting(f, name, next) ==
    \/ /\ disk' = [disk EXCEPT ![name] = File(<<>>)]
       /\ pc' = [pc EXCEPT ![f] = next]
       /\ UNCHANGED <<out, exc, escaped, faults>>
    \/ /\ faults < MaxFaults
       /\ faults' = faults + 1
       /\ UNCHANGED disk
       /\ RaiseInTry(f, DiskError)

\* a write to the open file `name` that raises OSError: only a part of the
\* data was written
FailedWrite(name, data) ==
    \E part \in ProperPrefixes(data) :
        disk' = [disk EXCEPT ![name] = File(part)]

\* lines 62-63: CACHE_DIR.mkdir(...); write_bytes opens cache_file
OpenBody(f) ==
    /\ pc[f] = "open_body"
    /\ OpenForWriting(f, cache_file(req[f].path), "write_body")
    /\ UNCHANGED <<req, content, content_type, calls, fetched, snap, prev>>

\* the bytes added at the end of what the file holds
WriteBody_Append(f) ==
    /\ pc[f] = "write_body"
    /\ \/ /\ disk' = [disk EXCEPT ![cache_file(req[f].path)] =
                                        File(@.data \o content[f])]
          /\ pc' = [pc EXCEPT ![f] = "open_meta"]
          /\ UNCHANGED <<out, exc, escaped, faults>>
       \/ /\ faults < MaxFaults
          /\ faults' = faults + 1
          /\ FailedWrite(cache_file(req[f].path), content[f])
          /\ RaiseInTry(f, DiskError)
    /\ UNCHANGED <<req, content, content_type, calls, fetched, snap, prev>>

\* line 63: cache_file.write_bytes(content) writes the bytes and closes
WriteBody(f) ==
    /\ pc[f] = "write_body"
    /\ \/ /\ disk' = [disk EXCEPT ![cache_file(req[f].path)] = File(content[f])]
          /\ pc' = [pc EXCEPT ![f] = "open_meta"]
          /\ UNCHANGED <<out, exc, escaped, faults>>
       \/ /\ faults < MaxFaults
          /\ faults' = faults + 1
          /\ FailedWrite(cache_file(req[f].path), content[f])
          /\ RaiseInTry(f, DiskError)
    /\ UNCHANGED <<req, content, content_type, calls, fetched, snap, prev>>

\* line 64: write_text opens meta_file
OpenMeta(f) ==
    /\ pc[f] = "open_meta"
    /\ OpenForWriting(f, meta_file(req[f].path), "write_meta")
    /\ UNCHANGED <<req, content, content_type, calls, fetched, snap, prev>>

\* line 64: meta_file.write_text(f"{content_type}\n{upstream_url}") writes
\* the text and closes
WriteMeta(f) ==
    /\ pc[f] = "write_meta"
    /\ LET text == MetaText(content_type[f], upstream_url(req[f].path))
       IN  \/ /\ disk' = [disk EXCEPT ![meta_file(req[f].path)] = File(text)]
              /\ pc' = [pc EXCEPT ![f] = "respond"]
              /\ UNCHANGED <<out, exc, escaped, faults>>
           \/ /\ faults < MaxFaults
              /\ faults' = faults + 1
              /\ FailedWrite(meta_file(req[f].path), text)
              /\ RaiseInTry(f, DiskError)
    /\ UNCHANGED <<req, content, content_type, calls, fetched, snap, prev>>

\* lines 67-71: the header block of a GET miss
Respond(f) ==
    /\ pc[f] = "respond"
    /\ out' = [out EXCEPT ![f] = @ \o
            <<HeaderBlock(200, "OK",
                [h \in {"Content-Type", "Content-Length", "X-Cache"} |->
                   CASE h = "Content-Type" -> content_type[f]
                     [] h = "Content-Length" -> ToString(Len(content[f]))
                     [] OTHER -> "MISS"])>>]
    /\ pc' = [pc EXCEPT ![f] = "send_body"]
    /\ UNCHANGED <<disk, req, content, content_type, exc, escaped, calls,
                   fetched, snap, prev, faults>>

\* line 72: self.wfile.write(content)
SendBody(f) ==
    /\ pc[f] = "send_body"
    /\ \/ /\ out' = [out EXCEPT ![f] = @ \o <<BodyBlock(content[f])>>]
          /\ pc' = [pc EXCEPT ![f] = "done"]
          /\ UNCHANGED <<exc, escaped, faults>>
       \/ /\ faults < MaxFaults
          /\ faults' = faults + 1
          /\ RaiseInTry(f, ClientError)
    /\ UNCHANGED <<disk, req, content, content_type, calls, fetched, snap, prev>>

\* the HEAD miss response without line 106
HeadMissHeaders_NoXCache(h) ==
    LET names == {"Content-Type"} \cup
                 (IF HeaderGet(h, "Content-Length", "") # ""
                  THEN {"Content-Length"} ELSE {})
    IN  [n \in names |->
           CASE n = "Content-Type" -> HeaderGet(h, "Content-Type", DefaultContentType)
             [] OTHER -> h["Content-Length"]]

\* the headers of the HEAD miss response, lines 103-106
HeadMissHeaders(h) ==
    LET names == {"Content-Type", "X-Cache"} \cup
                 (IF HeaderGet(h, "Content-Length", "") # ""
                  THEN {"Content-Length"} ELSE {})
    IN  [n \in names |->
           CASE n = "Content-Type" -> HeaderGet(h, "Content-Type", DefaultContentType)
             [] n = "Content-Length" -> h["Content-Length"]
             [] OTHER -> "MISS"]

\* a HEAD miss that stores an entry as the GET miss does
FetchHEAD_Caching(f) ==
    /\ pc[f] = "fetch"
    /\ req[f].method = "HEAD"
    /\ calls' = [calls EXCEPT ![f] = @ + 1]
    /\ \/ \E h \in UpstreamHeaders :
             /\ fetched' = [fetched EXCEPT ![f] =
                               [ok |-> TRUE, headers |-> h, body |-> <<>>]]
             /\ out' = [out EXCEPT ![f] =
                           @ \o <<HeaderBlock(200, "OK", HeadMissHeaders(h))>>]
             /\ pc' = [pc EXCEPT ![f] = "done"]
             /\ disk' = IF Cacheable(req[f].path)
                        THEN [disk EXCEPT
                                ![cache_file(req[f].path)] = File(<<>>),
                                ![meta_file(req[f].path)] =
                                    File(MetaText(HeaderGet(h, "Content-Type",
                                                            DefaultContentType),
                                                  upstream_url(req[f].path)))]
                        ELSE disk
             /\ UNCHANGED <<exc, escaped>>
       \/ \E e \in HTTPErrors \cup URLErrors \cup OpenOtherErrors :
             /\ RaiseInTry(f, e)
             /\ UNCHANGED <<fetched, disk>>
    /\ UNCHANGED <<req, content, content_type, snap, prev, faults>>

\* lines 98-107 of do_HEAD: urlopen(req, timeout=10) and the response
FetchHEAD(f) ==
    /\ pc[f] = "fetch"
    /\ req[f].method = "HEAD"
    /\ calls' = [calls EXCEPT ![f] = @ + 1]
    /\ \/ \E h \in UpstreamHeaders :
             /\ fetched' = [fetched EXCEPT ![f] =
                               [ok |-> TRUE, headers |-> h, body |-> <<>>]]
             /\ out' = [out EXCEPT ![f] =
                           @ \o <<HeaderBlock(200, "OK", HeadMissHeaders(h))>>]
             /\ pc' = [pc EXCEPT ![f] = "done"]
             /\ UNCHANGED <<exc, escaped>>
       \/ \E e \in HTTPErrors \cup URLErrors \cup OpenOtherErrors :
             /\ RaiseInTry(f, e)
             /\ UNCHANGED fetched
    /\ UNCHANGED <<disk, req, content, content_type, snap, prev, faults>>

\* the handler returns (or its exception reaches the server loop): the
\* flow is free for the next request
Finish(f) ==
    /\ pc[f] = "done"
    /\ prev' = [method |-> req[f].method, path |-> req[f].path, out |-> out[f],
                escaped |-> escaped[f], calls |-> calls[f]]
    /\ pc' = [pc EXCEPT ![f] = "idle"]
    /\ req' = [req EXCEPT ![f] = NoReq]
    /\ content' = [content EXCEPT ![f] = <<>>]
    /\ content_type' = [content_type EXCEPT ![f] = ""]
    /\ out' = [out EXCEPT ![f] = <<>>]
    /\ exc' = [exc EXCEPT ![f] = NoException]
    /\ escaped' = [escaped EXCEPT ![f] = FALSE]
    /\ calls' = [calls EXCEPT ![f] = 0]
    /\ fetched' = [fetched EXCEPT ![f] = NoFetch]
    /\ snap' = [snap EXCEPT ![f] = [n \in FileNames |-> Absent]]
    /\ UNCHANGED <<disk, faults>>

\* one step of do_GET / do_HEAD
Handle(f) ==
    \/ CheckCacheFile(f)
    \/ CheckMetaFile(f)
    \/ HitReadMeta(f)
    \/ HitHeaders(f)
    \/ HitBody(f)
    \/ FetchGET(f)
    \/ ReadBody(f)
    \/ OpenBody(f)
    \/ WriteBody(f)
    \/ OpenMeta(f)
    \/ WriteMeta(f)
    \/ Respond(f)
    \/ SendBody(f)
    \/ FetchHEAD(f)

\* one step of a handler that has started
Step(f) == Handle(f) \/ Finish(f)

\* HTTPServer.serve_forever() (line 128 builds an HTTPServer, which handles
\* one request at a time): a request is taken when no other is in progress,
\* by the first free flow
Accept(f) ==
    /\ \A g \in Flows : pc[g] = "idle"
    /\ \A g \in Flows : f <= g
    /\ \E method \in Methods, path \in Paths : Start(f, method, path)

Next == \E f \in Flows : Accept(f) \/ Step(f)

Spec == Init /\ [][Next]_vars

(***************************************************************************)
(* Overlapping handlings.  The handlers hold no lock and CACHE_DIR (line   *)
(* 23) is a fixed path, so handlings that run at the same time - under a   *)
(* threading server, or in two processes of this program started on        *)
(* different ports - interleave step by step on the same files.  Each flow *)
(* handles one request.                                                    *)
(***************************************************************************)
ConcAccept(f) ==
    /\ \A g \in Flows : g < f => pc[g] # "idle"
    /\ \E method \in Methods, path \in Paths : Start(f, method, path)

ConcNext == \E f \in Flows : ConcAccept(f) \/ Handle(f)

ConcSpec == Init /\ [][ConcNext]_vars

(***************************************************************************)
(* A start on a directory that is not empty.  main() accepts an existing   *)
(* CACHE_DIR (line 126, exist_ok=True) with whatever an earlier run or     *)
(* another program left in /tmp/pacman-cache: here one half of the entry   *)
(* of "/core.db", the body alone or the metadata alone.                    *)
(***************************************************************************)
StaleBody == File(<<9>>)
StaleMeta == File(<<"text/stale", "\n", "http://old.example/core.db">>)

LeftoverInit ==
    /\ \E half \in {cache_file(<<"/core", ".db">>), meta_file(<<"/core", ".db">>)} :
          disk = [n \in FileNames |->
                    IF n # half THEN Absent
                    ELSE IF n = cache_file(<<"/core", ".db">>) THEN StaleBody
                                                               ELSE StaleMeta]
    /\ pc = [f \in Flows |-> "idle"]
    /\ req = [f \in Flows |-> NoReq]
    /\ content = [f \in Flows |-> <<>>]
    /\ content_type = [f \in Flows |-> ""]
    /\ out = [f \in Flows |-> <<>>]
    /\ exc = [f \in Flows |-> NoException]
    /\ escaped = [f \in Flows |-> FALSE]
    /\ calls = [f \in Flows |-> 0]
    /\ fetched = [f \in Flows |-> NoFetch]
    /\ snap = [f \in Flows |-> [n \in FileNames |-> Absent]]
    /\ prev = NoPrev
    /\ faults = 0

LeftoverSpec == LeftoverInit /\ [][Next]_vars

(***************************************************************************)
(* Vocabulary of the properties                                            *)
(***************************************************************************)
\* the path ends in .pkg.tar.zst, .pkg.tar.xz, .db, .db.sig or .files
HasListedSuffix(path) ==
    \E n \in 0..Len(path) :
        SubSeq(path, n + 1, Len(path)) \in
            { <<".pkg", ".tar", ".zst">>, <<".pkg", ".tar", ".xz">>, <<".db">>,
              <<".db", ".sig">>, <<".files">> }

Active(f) == pc[f] # "idle"
Done(f) == pc[f] = "done"
Returned(f) == Done(f) /\ ~escaped[f]

\* the status lines / header blocks among the blocks o
HeaderBlocksOf(o) == SelectSeq(o, LAMBDA b : b.kind = "headers")

\* o is a complete successful response: one 200 header block marked x,
\* followed by the body for GET and by nothing for HEAD
SuccessResponse(method, o, x) ==
    /\ Len(o) = IF method = "GET" THEN 2 ELSE 1
    /\ o[1].kind = "headers"
    /\ o[1].status = 200
    /\ "X-Cache" \in DOMAIN o[1].headers
    /\ o[1].headers["X-Cache"] = x
    /\ method = "GET" => o[2].kind = "body"

\* the first line of a text file, read off the chunks directly
FirstLine(text) ==
    LET stops == { i \in 1..Len(text) : text[i] = "\n" }
        n == IF stops = {} THEN Len(text) + 1
             ELSE CHOOSE i \in stops : \A j \in stops : i <= j
    IN  Join(SubSeq(text, 1, n - 1))

\* the handling that finished last was this successful GET miss
PrevWasGetMiss(path) ==
    /\ prev.method = "GET"
    /\ prev.path = path
    /\ ~prev.escaped
    /\ prev.calls = 1
    /\ SuccessResponse("GET", prev.out, "MISS")

TypeOK ==
    /\ \A n \in FileNames : disk[n].exists \in BOOLEAN
    /\ \A f \in Flows : pc[f] \in {"idle", "check_cache", "check_meta", "hit_meta",
                                   "hit_headers", "hit_body", "fetch", "read",
                                   "open_body", "write_body", "open_meta",
                                   "write_meta", "respond",
                                   "send_body", "done"}
    /\ faults \in 0..MaxFaults

(***************************************************************************)
(* C1: once the body file and the metadata file of a path both exist, they *)
(* keep existing, and every request for that path that starts afterwards   *)
(* stays on the hit branch: it issues no upstream request, and the         *)
(* response it completes is a 200 marked HIT.                              *)
(***************************************************************************)
C1_CachedPathNeverRefetched ==
    /\ [](\A f \in Flows :
            (Active(f) /\ Complete(snap[f], req[f].path)) =>
                /\ calls[f] = 0
                /\ pc[f] \in {"check_cache", "check_meta", "hit_meta",
                              "hit_headers", "hit_body", "done"}
                /\ Returned(f) => SuccessResponse(req[f].method, out[f], "HIT"))
    /\ [][\A p \in Paths : Complete(disk, p) => Complete(disk', p)]_vars

\* a HEAD answered HIT from an entry that an earlier GET hit already used
C1_Witness ==
    \E f \in Flows :
        /\ Returned(f)
        /\ req[f].method = "HEAD"
        /\ Complete(snap[f], req[f].path)
        /\ SuccessResponse("HEAD", out[f], "HIT")
        /\ prev.method = "GET" /\ prev.path = req[f].path /\ prev.calls = 0

(***************************************************************************)
(* C2: a GET of a cacheable path that misses and succeeds, followed        *)
(* immediately by a GET of the same path: the second makes no upstream     *)
(* call and, when it returns, is marked HIT and carries the body bytes and *)
(* the content type of the first response.                                 *)
(***************************************************************************)
C2_MissThenHitIdentical ==
    \A f \in Flows :
        (/\ Done(f)
         /\ req[f].method = "GET"
         /\ HasListedSuffix(req[f].path)
         /\ PrevWasGetMiss(req[f].path)) =>
            /\ calls[f] = 0
            /\ Returned(f) =>
                  /\ SuccessResponse("GET", out[f], "HIT")
                  /\ out[f][2].data = prev.out[2].data
                  /\ out[f][1].headers["Content-Type"]
                        = prev.out[1].headers["Content-Type"]

\* the second GET returned the two bytes and the type the upstream gave
C2_Witness ==
    \E f \in Flows :
        /\ Returned(f)
        /\ req[f].method = "GET"
        /\ HasListedSuffix(req[f].path)
        /\ PrevWasGetMiss(req[f].path)
        /\ SuccessResponse("GET", out[f], "HIT")
        /\ out[f][2].data = <<7, 8>>
        /\ out[f][1].headers["Content-Type"] = "application/x-tar"

(***************************************************************************)
(* C3: a successful GET miss of a path without a cacheable suffix returns  *)
(* the upstream body and content type marked MISS and leaves the cache     *)
(* store as it was, with no entry for the path; the identical GET that     *)
(* follows contacts the upstream again and, when it succeeds, is a MISS.   *)
(***************************************************************************)
C3_NonCacheableLeavesNoArtifact ==
    \A f \in Flows :
        (Active(f) /\ req[f].method = "GET" /\ ~HasListedSuffix(req[f].path)) =>
            /\ disk = snap[f]
            /\ ~Exists(disk, cache_file(req[f].path))
            /\ ~Exists(disk, meta_file(req[f].path))
            /\ (Returned(f) /\ exc[f] = NoException) =>
                  /\ SuccessResponse("GET", out[f], "MISS")
                  /\ out[f][2].data = fetched[f].body
                  /\ out[f][1].headers["Content-Type"] =
                        HeaderGet(fetched[f].headers, "Content-Type",
                                  DefaultContentType)
            /\ (Done(f) /\ PrevWasGetMiss(req[f].path)) => calls[f] = 1

\* the second of two successful GETs of "/core.sig" was a MISS again
C3_Witness ==
    \E f \in Flows :
        /\ Returned(f)
        /\ req[f] = [method |-> "GET", path |-> <<"/core", ".sig">>]
        /\ PrevWasGetMiss(req[f].path)
        /\ SuccessResponse("GET", out[f], "MISS")
        /\ calls[f] = 1

(***************************************************************************)
(* C4: when the upstream answers a GET or HEAD miss with a non-success     *)
(* status, the client receives one error response with that status code    *)
(* and that reason, the store is unchanged and holds no entry for the path.*)
(***************************************************************************)
C4_UpstreamStatusMirrored ==
    \A f \in Flows :
        (Done(f) /\ exc[f].cls = "HTTPError") =>
            /\ ~escaped[f]
            /\ Len(HeaderBlocksOf(out[f])) = 1
            /\ out[f][1].kind = "headers"
            /\ out[f][1].status = exc[f].code
            /\ out[f][1].reason = exc[f].reason
            /\ disk = snap[f]
            /\ ~Complete(disk, req[f].path)

\* a HEAD of a cacheable path was answered 404 Not Found
C4_Witness ==
    \E f \in Flows :
        /\ Done(f)
        /\ req[f].method = "HEAD"
        /\ HasListedSuffix(req[f].path)
        /\ exc[f].cls = "HTTPError"
        /\ out[f][1].status = 404
        /\ out[f][1].reason = "Not Found"

(***************************************************************************)
(* C5: every network failure of the upstream fetch of a GET or HEAD miss,  *)
(* while connecting or while the body is read, gives the client status 502 *)
(* with the message "Upstream error: " followed by the reason.             *)
(***************************************************************************)
C5_NetworkFailureIs502 ==
    \A f \in Flows :
        (Done(f) /\ exc[f].cause = "network") =>
            /\ ~escaped[f]
            /\ Len(HeaderBlocksOf(out[f])) = 1
            /\ out[f][1].status = 502
            /\ out[f][1].reason = "Upstream error: " \o exc[f].reason

(***************************************************************************)
(* C6: whenever a GET miss ends in an error response (mirrored status,     *)
(* 502 or 500), the cache store is the same as before the request.         *)
(***************************************************************************)
C6_ErrorLeavesStoreUntouched ==
    \A f \in Flows :
        (/\ Done(f)
         /\ req[f].method = "GET"
         /\ calls[f] = 1
         /\ exc[f] # NoException) => disk = snap[f]

(***************************************************************************)
(* C7: a disk failure during the handling of a request (neither an         *)
(* upstream HTTP error nor an upstream connection error) never escapes the *)
(* handler and is sent to the client as a 500 response carrying the        *)
(* failure description, for GET and HEAD, on the hit and the miss branch.  *)
(***************************************************************************)
C7_OtherFailureIs500 ==
    \A f \in Flows :
        (Done(f) /\ exc[f].cause = "disk") =>
            /\ ~escaped[f]
            /\ \E i \in 1..Len(out[f]) :
                  /\ out[f][i].kind = "headers"
                  /\ out[f][i].status = 500
                  /\ out[f][i].reason = exc[f].reason

(***************************************************************************)
(* C8: a HEAD request never changes the cache store, and a GET of the same *)
(* path right after a HEAD miss still contacts the upstream (is a miss).   *)
(***************************************************************************)
C8_HeadNeverWrites ==
    \A f \in Flows :
        /\ (Active(f) /\ req[f].method = "HEAD") => disk = snap[f]
        /\ (/\ Done(f)
            /\ req[f].method = "GET"
            /\ prev.method = "HEAD"
            /\ prev.path = req[f].path
            /\ prev.calls = 1) =>
               /\ calls[f] = 1
               /\ (Returned(f) /\ exc[f] = NoException) =>
                     SuccessResponse("GET", out[f], "MISS")

\* a successful HEAD miss of a cacheable path, then a GET miss of it
C8_Witness ==
    \E f \in Flows :
        /\ Returned(f)
        /\ req[f].method = "GET"
        /\ HasListedSuffix(req[f].path)
        /\ prev.method = "HEAD" /\ prev.path = req[f].path
        /\ SuccessResponse("HEAD", prev.out, "MISS")
        /\ SuccessResponse("GET", out[f], "MISS")

\* the handling of f went through the hit branch and returned
ReturnedHit(f) == Returned(f) /\ calls[f] = 0

(***************************************************************************)
(* C9: every hit response has status 200, the content type on the first    *)
(* line of the stored metadata, a Content-Length equal to the byte length  *)
(* of the stored body and X-Cache HIT; the GET hit body is the stored body *)
(* and the HEAD hit has no body.                                           *)
(***************************************************************************)
C9_HitResponseShape ==
    \A f \in Flows :
        ReturnedHit(f) =>
            LET body == disk[cache_file(req[f].path)].data
                meta == disk[meta_file(req[f].path)].data
            IN  /\ out[f][1] = HeaderBlock(200, "OK",
                       [h \in {"Content-Type", "Content-Length", "X-Cache"} |->
                          CASE h = "Content-Type" -> FirstLine(meta)
                            [] h = "Content-Length" -> ToString(Len(body))
                            [] OTHER -> "HIT"])
                /\ req[f].method = "GET" => out[f] = <<out[f][1], BodyBlock(body)>>
                /\ req[f].method = "HEAD" => Len(out[f]) = 1

\* a GET hit of a two-byte body, after a HEAD hit of the same entry
C9_Witness ==
    \E f \in Flows :
        /\ ReturnedHit(f)
        /\ req[f].method = "GET"
        /\ out[f][1].headers["Content-Length"] = "2"
        /\ out[f][1].headers["Content-Type"] = "application/x-tar"
        /\ out[f][2].data = <<7, 8>>
        /\ prev.method = "HEAD" /\ prev.path = req[f].path /\ prev.calls = 0
        /\ Len(prev.out) = 1

(***************************************************************************)
(* C10: a hit whose metadata file is empty or has an empty first line is   *)
(* answered with the content type application/octet-stream.                *)
(***************************************************************************)
C10_EmptyMetadataFallsBack ==
    \A f \in Flows :
        (ReturnedHit(f) /\ FirstLine(disk[meta_file(req[f].path)].data) = "") =>
            out[f][1].headers["Content-Type"] = DefaultContentType
\* one file of the entry of the path is present and the other is not
Partial(d, path) ==
    Exists(d, cache_file(path)) # Exists(d, meta_file(path))

(***************************************************************************)
(* C11: a request for a path whose entry is partial (body file without     *)
(* metadata file, or metadata file without body file) is handled as a      *)
(* miss, by GET and by HEAD: the upstream is contacted, a successful       *)
(* response is marked MISS, and after a successful GET of a cacheable path *)
(* both files hold the newly fetched body and content type.                *)
(***************************************************************************)
C11_PartialEntryIsMiss ==
    \A f \in Flows :
        (Active(f) /\ Partial(snap[f], req[f].path)) =>
            /\ pc[f] \notin {"hit_meta", "hit_headers", "hit_body"}
            /\ Done(f) => calls[f] = 1
            /\ (Returned(f) /\ exc[f] = NoException) =>
                  /\ SuccessResponse(req[f].method, out[f], "MISS")
                  /\ (req[f].method = "GET" /\ HasListedSuffix(req[f].path)) =>
                        /\ disk[cache_file(req[f].path)] = File(fetched[f].body)
                        /\ Exists(disk, meta_file(req[f].path))
                        /\ FirstLine(disk[meta_file(req[f].path)].data) =
                              (IF "Content-Type" \in DOMAIN fetched[f].headers
                               THEN fetched[f].headers["Content-Type"]
                               ELSE "application/octet-stream")

\* a GET that found the stale metadata alone has replaced it, after a HEAD
\* of the same partial entry was answered MISS
C11_Witness ==
    \E f \in Flows :
        /\ Returned(f)
        /\ req[f] = [method |-> "GET", path |-> <<"/core", ".db">>]
        /\ snap[f][meta_file(req[f].path)] = StaleMeta
        /\ ~Exists(snap[f], cache_file(req[f].path))
        /\ SuccessResponse("GET", out[f], "MISS")
        /\ disk[cache_file(req[f].path)] = File(<<7, 8>>)
        /\ FirstLine(disk[meta_file(req[f].path)].data) = "application/x-tar"
        /\ prev.method = "HEAD" /\ prev.path = req[f].path
        /\ SuccessResponse("HEAD", prev.out, "MISS")
\* the two files of the entry of a path
Entry(d, path) == <<d[cache_file(path)], d[meta_file(path)]>>

\* the entry of the path is complete and no write_text that created its
\* metadata file is still to write the text
Created(p) ==
    /\ Complete(disk, p)
    /\ \A f \in Flows : ~(req[f].path = p /\ pc[f] = "write_meta")

Sent200Miss(o) ==
    /\ o # <<>>
    /\ o[1].kind = "headers"
    /\ o[1].status = 200
    /\ "X-Cache" \in DOMAIN o[1].headers
    /\ o[1].headers["X-Cache"] = "MISS"

(***************************************************************************)
(* C13: a GET miss of a cacheable path writes the body file, then the      *)
(* metadata file, before it sends anything: nothing has been sent while    *)
(* the files are written, and as soon as the client has the 200 MISS       *)
(* status line the store holds the complete entry with the fetched body    *)
(* and content type; the next request for that path makes no upstream call *)
(* and, when it returns, is a HIT.                                         *)
(***************************************************************************)
C13_EntryWrittenBeforeResponse ==
    \A f \in Flows :
        (Active(f) /\ req[f].method = "GET" /\ HasListedSuffix(req[f].path)) =>
            LET p == req[f].path
            IN  /\ pc[f] \in {"read", "open_body", "write_body", "open_meta",
                              "write_meta"} => out[f] = <<>>
                /\ pc[f] \in {"open_meta", "write_meta"} =>
                      disk[cache_file(p)] = File(fetched[f].body)
                /\ Sent200Miss(out[f]) =>
                      /\ Complete(disk, p)
                      /\ disk[cache_file(p)] = File(fetched[f].body)
                      /\ FirstLine(disk[meta_file(p)].data) =
                            out[f][1].headers["Content-Type"]
                /\ (/\ Done(f)
                    /\ prev.method = "GET"
                    /\ prev.path = p
                    /\ Sent200Miss(prev.out)) =>
                       /\ calls[f] = 0
                       /\ Returned(f) => SuccessResponse("GET", out[f], "HIT")

\* a GET hit after a GET miss whose 200 MISS status line was sent and whose
\* body then failed to reach the client
C13_Witness ==
    \E f \in Flows :
        /\ Returned(f)
        /\ req[f].method = "GET"
        /\ HasListedSuffix(req[f].path)
        /\ prev.method = "GET" /\ prev.path = req[f].path
        /\ Sent200Miss(prev.out)
        /\ Len(prev.out) = 3
        /\ SuccessResponse("GET", out[f], "HIT")
        /\ out[f][2].data = <<7, 8>>
(***************************************************************************)
(* C14: every 200 response - a hit, a miss, a forwarded GET or HEAD -      *)
(* carries the X-Cache header with value HIT or MISS; the value is HIT     *)
(* exactly when the handling made no upstream request and MISS exactly     *)
(* when it made one.                                                       *)
(***************************************************************************)
C14_CacheStatusHeader ==
    \A f \in Flows :
        \A i \in 1..Len(out[f]) :
            (out[f][i].kind = "headers" /\ out[f][i].status = 200) =>
                /\ "X-Cache" \in DOMAIN out[f][i].headers
                /\ out[f][i].headers["X-Cache"] \in {"HIT", "MISS"}
                /\ out[f][i].headers["X-Cache"] = "HIT" <=> calls[f] = 0
                /\ out[f][i].headers["X-Cache"] = "MISS" <=> calls[f] = 1

\* a HEAD forwarded for a path that is never cached, marked MISS, after a
\* GET hit of another path
C14_Witness ==
    \E f \in Flows :
        /\ Returned(f)
        /\ req[f].method = "HEAD"
        /\ ~HasListedSuffix(req[f].path)
        /\ SuccessResponse("HEAD", out[f], "MISS")
        /\ calls[f] = 1
        /\ prev.method = "GET" /\ prev.calls = 0
        /\ SuccessResponse("GET", prev.out, "HIT")
\* the content type the upstream answer of flow f stands for
FetchedType(f) ==
    IF "Content-Type" \in DOMAIN fetched[f].headers
    THEN fetched[f].headers["Content-Type"]
    ELSE "application/octet-stream"

\* f and g are the two overlapping GETs of one cacheable path: both saw a
\* miss, both fetched, both stored and answered, and no other flow runs
TwoMissesFinished(f, g) ==
    /\ f # g
    /\ req[f] = req[g]
    /\ req[f].method = "GET"
    /\ HasListedSuffix(req[f].path)
    /\ \A h \in {f, g} :
          /\ Returned(h)
          /\ exc[h] = NoException
          /\ ~Exists(snap[h], cache_file(req[h].path))
          /\ SuccessResponse("GET", out[h], "MISS")
    /\ \A h \in Flows \ {f, g} : pc[h] = "idle"

FetchersFor(f) ==
    { g \in Flows \ {f} : /\ req[g] # NoReq
                          /\ req[g].path = req[f].path
                          /\ req[g].method = "GET"
                          /\ fetched[g].ok }

\* another flow has the file `stage` of f's key open and not yet written,
\* or gave up in the middle of writing the key
WriterAtWork(f, stage) ==
    \E g \in Flows \ {f} :
        /\ req[g].path = req[f].path
        /\ req[g].method = "GET"
        /\ calls[g] = 1
        /\ pc[g] = stage \/ exc[g].cause = "disk"

\* this step, flow f on the hit branch reads a content type that no fetch
\* of the path supplied
ReadsTornType(f) ==
    /\ pc[f] = "hit_meta"
    /\ pc'[f] = "hit_headers"
    /\ \A g \in FetchersFor(f) :
          FirstLine(disk[meta_file(req[f].path)].data) # FetchedType(g)

\* this step, flow f on the hit branch takes the length or the bytes of a
\* body file that holds the body of no fetch of the path
ReadsTornBody(f) ==
    /\ pc[f] \in {"hit_headers", "hit_body"}
    /\ Len(out'[f]) = Len(out[f]) + 1
    /\ exc'[f] = NoException
    /\ \A g \in FetchersFor(f) :
          disk[cache_file(req[f].path)].data # fetched[g].body

(***************************************************************************)
(* C16: a flow serving a hit while another flow is writing the same key    *)
(* can observe a torn entry.  The reads of the hit branch are not guarded  *)
(* against the writes of the miss branch; a hit reads a content type or a  *)
(* body that no fetch of the path supplied only while another flow has     *)
(* that file of the key open and unwritten, or after another flow failed   *)
(* in the middle of writing the key - and the witness below shows that     *)
(* such a HIT response is reachable.                                       *)
(***************************************************************************)
C16_TornHitOnlyDuringWrite ==
    [][\A f \in Flows :
          /\ ReadsTornType(f) => WriterAtWork(f, "write_meta")
          /\ ReadsTornBody(f) => WriterAtWork(f, "write_body")]_vars

\* a finished HIT response whose content type is that of no fetch of the
\* path, sent although every fetch of the path supplied a non-empty type
\* and no write failed
C16_Witness ==
    \E f \in Flows :
        /\ ReturnedHit(f)
        /\ faults = 0
        /\ SuccessResponse(req[f].method, out[f], "HIT")
        /\ FetchersFor(f) # {}
        /\ \A g \in FetchersFor(f) :
              /\ FetchedType(g) # ""
              /\ out[f][1].headers["Content-Type"] # FetchedType(g)
\* the number of upstream requests of a flow: never more than one, none
\* once the flow is on the hit branch, one once it is past the fetch of
\* the miss branch
AtMostOneUpstreamRequest ==
    \A f \in Flows :
        /\ calls[f] \in {0, 1}
        /\ pc[f] \in {"hit_meta", "hit_headers", "hit_body"} => calls[f] = 0
        /\ pc[f] \in {"read", "open_body", "write_body", "open_meta",
                      "write_meta", "respond", "send_body"} => calls[f] = 1
        /\ Done(f) => calls[f] = IF Complete(snap[f], req[f].path) THEN 0 ELSE 1

\* the upstream attempt of flow f has failed
AttemptFailed(f) ==
    /\ calls[f] = 1
    /\ exc[f] # NoException
    /\ exc[f].cause \in {"status", "network"}

\* o is one error response: a single status line of an error status
IsErrorResponse(o) ==
    /\ Len(HeaderBlocksOf(o)) = 1
    /\ o[1].kind = "headers"
    /\ o[1].status >= 400

(***************************************************************************)
(* C17: every handling flow issues at most one upstream request - exactly  *)
(* one on a miss, never repeated after a failure, and none on a hit - and  *)
(* after the single attempt has failed the flow has gone directly to an    *)
(* error response: it is finished and what it sent is one error response.  *)
(***************************************************************************)
C17_SingleAttemptThenErrorResponse ==
    /\ AtMostOneUpstreamRequest
    /\ \A f \in Flows : AttemptFailed(f) => Done(f) /\ IsErrorResponse(out[f])
\* flow f has finished a miss that upstream answered and that it
\* answered completely
SuccessfulMiss(f) ==
    /\ Returned(f)
    /\ exc[f] = NoException
    /\ calls[f] = 1
    /\ fetched[f].ok

\* upstream supplied a Content-Length that is not empty
UpstreamGaveLength(f) ==
    /\ "Content-Length" \in DOMAIN fetched[f].headers
    /\ fetched[f].headers["Content-Length"] # ""

(***************************************************************************)
(* C18: a successful miss response is one 200 header block marked MISS     *)
(* with the upstream content type (application/octet-stream when upstream  *)
(* gave none).  For GET, cacheable path or not, its Content-Length is the  *)
(* byte length of the fetched body and the body sent is the fetched body.  *)
(* For HEAD the Content-Length header is present exactly when upstream     *)
(* supplied a non-empty one, with upstream's value, and no body is sent.   *)
(***************************************************************************)
C18_MissResponseShape ==
    \A f \in Flows :
        SuccessfulMiss(f) =>
            LET h == out[f][1].headers IN
            /\ SuccessResponse(req[f].method, out[f], "MISS")
            /\ out[f][1].reason = "OK"
            /\ h["Content-Type"] = FetchedType(f)
            /\ req[f].method = "GET" =>
                  /\ DOMAIN h = {"Content-Type", "Content-Length", "X-Cache"}
                  /\ h["Content-Length"] = ToString(Len(fetched[f].body))
                  /\ out[f][2].data = fetched[f].body
            /\ req[f].method = "HEAD" =>
                  /\ DOMAIN h = {"Content-Type", "X-Cache"} \cup
                        (IF UpstreamGaveLength(f) THEN {"Content-Length"} ELSE {})
                  /\ UpstreamGaveLength(f) =>
                        h["Content-Length"] = fetched[f].headers["Content-Length"]

\* a GET miss of a path that is not cacheable answered with the default
\* type, right after a HEAD miss that passed upstream's Content-Length on
C18_Witness ==
    \E f \in Flows :
        /\ SuccessfulMiss(f)
        /\ req[f].method = "GET"
        /\ ~HasListedSuffix(req[f].path)
        /\ "Content-Type" \notin DOMAIN fetched[f].headers
        /\ out[f][1].headers["Content-Type"] = "application/octet-stream"
        /\ out[f][2].data = fetched[f].body
        /\ prev.method = "HEAD"
        /\ prev.calls = 1
        /\ SuccessResponse("HEAD", prev.out, "MISS")
        /\ "Content-Length" \in DOMAIN prev.out[1].headers
\* the directory d is well-formed: metadata only next to a body, and files
\* only for paths that end in a listed suffix
WellFormed(d) ==
    \A p \in Paths :
        /\ Exists(d, meta_file(p)) => Exists(d, cache_file(p))
        /\ Exists(d, cache_file(p)) \/ Exists(d, meta_file(p)) => HasListedSuffix(p)

\* a flow whose GET of path p upstream has answered, body read
FetchedByGet(p) ==
    \E f \in Flows :
        /\ req[f] = [method |-> "GET", path |-> p]
        /\ calls[f] = 1
        /\ fetched[f].ok
        /\ content[f] = fetched[f].body

(***************************************************************************)
(* C19: starting from an empty cache directory, the store is well-formed   *)
(* in every reachable state, under any order or interleaving of GET and    *)
(* HEAD requests and any upstream or disk failure: a metadata file exists  *)
(* only if the body file of its key exists, files exist only for paths     *)
(* with a cacheable suffix, and a file comes into existence only in a step *)
(* of a GET flow for that path whose upstream fetch has succeeded.         *)
(***************************************************************************)
C19_StoreWellFormed ==
    /\ [](WellFormed(disk))
    /\ [][\A p \in Paths :
            \/ Exists(disk', cache_file(p)) /\ ~Exists(disk, cache_file(p))
            \/ Exists(disk', meta_file(p)) /\ ~Exists(disk, meta_file(p))
            => FetchedByGet(p)]_vars

\* after a disk failure: one path with both files, another with its body
\* file alone
C19_Witness ==
    \E p, q \in Paths :
        /\ faults > 0
        /\ Complete(disk, p)
        /\ Exists(disk, cache_file(q))
        /\ ~Exists(disk, meta_file(q))
(***************************************************************************)
(* C20: every GET or HEAD handling flow ends having sent exactly one       *)
(* response, one status line with its header block: never none, and never  *)
(* an error response after the 200 status line and headers were sent.      *)
(***************************************************************************)
C20_ExactlyOneResponse ==
    \A f \in Flows : Done(f) => Len(HeaderBlocksOf(out[f])) = 1

\* a flow that ended after a 200 header block followed by an error response
C20_TwoResponses ==
    \E f \in Flows :
        /\ Done(f)
        /\ Len(HeaderBlocksOf(out[f])) = 2
        /\ out[f][1].status = 200
        /\ out[f][2].status = 500

\* a flow that ended without sending anything
C20_NoResponse ==
    \E f \in Flows : Done(f) /\ out[f] = <<>>
====
